---------------------------- MODULE Spec2Model ----------------------------
(***************************************************************************)
(* The expense splitter's backend: the expense table, the ExpensesService  *)
(* operations create, findAll, clearAll and calculateSettlements, and the  *)
(* page's submit path that feeds create.                                   *)
(*                                                                         *)
(* Strings are tuples of one-character strings, so that split, trim, join  *)
(* and the key order of a JavaScript object are computed, not assumed.     *)
(* Numbers are IEEE-754 doubles, computed bit for bit.                     *)
(***************************************************************************)
EXTENDS Integers, Sequences, FiniteSets, TLC

(***************************************************************************)
(* JavaScript `number` arithmetic (IEEE-754 binary64, round to nearest,    *)
(* ties to even) on the values calculateSettlements handles.  A number is  *)
(* [neg, mag]: mag is the magnitude in units of 2^-FracBits, a little-     *)
(* endian tuple of NL limbs of LimbBits bits each; zero is kept unsigned.  *)
(* Every operation computes the exact result and rounds it to Prec         *)
(* significant bits, as the hardware does: magnitudes stay below 2^LimbBits*)
(* and nonzero quotients above 2^(Prec - FracBits), so no result leaves    *)
(* the grid.                                                               *)
(***************************************************************************)
Prec == 53
LimbBits == 24
NL == 5
Base == 2^LimbBits
FracBits == (NL - 1) * LimbBits
Limbs == 1..NL

ZeroMag == [k \in Limbs |-> 0]

RECURSIVE AddCarry(_, _, _)
AddCarry(a, b, k) ==
    IF k = 0 THEN 0 ELSE (a[k] + b[k] + AddCarry(a, b, k - 1)) \div Base

NatAdd(a, b) == [k \in Limbs |-> (a[k] + b[k] + AddCarry(a, b, k - 1)) % Base]

RECURSIVE SubBorrow(_, _, _)
SubBorrow(a, b, k) ==
    IF k = 0 THEN 0
    ELSE IF a[k] - b[k] - SubBorrow(a, b, k - 1) < 0 THEN 1 ELSE 0

\* a - b for a >= b
NatSub(a, b) == [k \in Limbs |-> (a[k] - b[k] - SubBorrow(a, b, k - 1)) % Base]

RECURSIVE NatLessFrom(_, _, _)
NatLessFrom(a, b, k) ==
    IF k = 0 THEN FALSE
    ELSE IF a[k] # b[k] THEN a[k] < b[k]
    ELSE NatLessFrom(a, b, k - 1)

NatLess(a, b) == NatLessFrom(a, b, NL)

RECURSIVE MulCarry(_, _, _)
MulCarry(a, m, k) ==
    IF k = 0 THEN 0 ELSE (a[k] * m + MulCarry(a, m, k - 1)) \div Base

\* a * m for a small multiplier m (m <= 100)
NatMulSmall(a, m) == [k \in Limbs |-> (a[k] * m + MulCarry(a, m, k - 1)) % Base]

RECURSIVE DivRem(_, _, _)
\* the remainder carried into limb k by the long division of a by n
DivRem(a, n, k) ==
    IF k = NL THEN 0 ELSE (DivRem(a, n, k + 1) * Base + a[k + 1]) % n

\* floor(a / n) for a small divisor n (n <= 100)
NatDivSmall(a, n) == [k \in Limbs |-> (DivRem(a, n, k) * Base + a[k]) \div n]

\* a mod n
NatModSmall(a, n) == (DivRem(a, n, 1) * Base + a[1]) % n

RECURSIVE BitLen(_)
BitLen(v) == IF v = 0 THEN 0 ELSE 1 + BitLen(v \div 2)

RECURSIVE TopLimb(_, _)
TopLimb(a, k) == IF k = 0 THEN 0 ELSE IF a[k] # 0 THEN k ELSE TopLimb(a, k - 1)

\* index of the highest set bit of a, -1 for zero
TopBit(a) ==
    LET t == TopLimb(a, NL)
    IN  IF t = 0 THEN -1 ELSE (t - 1) * LimbBits + BitLen(a[t]) - 1

Bit(a, p) == (a[p \div LimbBits + 1] \div 2^(p % LimbBits)) % 2

\* some bit of a below position p is set
LowNonZero(a, p) ==
    \/ \E k \in Limbs : k < p \div LimbBits + 1 /\ a[k] # 0
    \/ a[p \div LimbBits + 1] % 2^(p % LimbBits) # 0

\* round a (plus a sticky fraction below its last bit) to Prec significant
\* bits, to nearest, ties to even
RoundNat(a, sticky) ==
    LET h == TopBit(a)
        c == h - (Prec - 1)
        q == c \div LimbBits + 1
        r == c % LimbBits
        trunc == [k \in Limbs |->
                    IF k < q THEN 0
                    ELSE IF k = q THEN (a[k] \div 2^r) * 2^r
                    ELSE a[k]]
        ulp == [k \in Limbs |-> IF k = q THEN 2^r ELSE 0]
        half == Bit(a, c - 1) = 1
        rest == sticky \/ LowNonZero(a, c - 1)
        odd == Bit(a, c) = 1
    IN  IF c <= 0 THEN a
        ELSE IF half /\ (rest \/ odd) THEN NatAdd(trunc, ulp)
        ELSE trunc

Num(neg, mag) == [neg |-> neg /\ mag # ZeroMag, mag |-> mag]

Zero == Num(FALSE, ZeroMag)

\* the number with integer value k
FromInt(k) ==
    Num(k < 0, [x \in Limbs |-> IF x = NL THEN (IF k < 0 THEN -k ELSE k) ELSE 0])

IsZero(x) == x.mag = ZeroMag

Neg(x) == Num(~x.neg, x.mag)

\* x + y
Add(x, y) ==
    IF x.neg = y.neg THEN Num(x.neg, RoundNat(NatAdd(x.mag, y.mag), FALSE))
    ELSE IF NatLess(x.mag, y.mag)
         THEN Num(y.neg, RoundNat(NatSub(y.mag, x.mag), FALSE))
         ELSE Num(x.neg, RoundNat(NatSub(x.mag, y.mag), FALSE))

\* x - y
Sub(x, y) == Add(x, Neg(y))

\* x * m for an integer 0 < m <= 100
MulSmall(x, m) == Num(x.neg, RoundNat(NatMulSmall(x.mag, m), FALSE))

\* x / n for an integer 0 < n <= 100
DivSmall(x, n) ==
    Num(x.neg, RoundNat(NatDivSmall(x.mag, n), NatModSmall(x.mag, n) # 0))

\* x < y
Less(x, y) ==
    IF x.neg # y.neg THEN x.neg
    ELSE IF x.neg THEN NatLess(y.mag, x.mag)
    ELSE NatLess(x.mag, y.mag)

\* Math.min(x, y)
MathMin(x, y) == IF Less(y, x) THEN y ELSE x

\* Math.round(x): the nearest integer, a tie going toward +Infinity
MathRound(x) ==
    LET ip == x.mag[NL]
        half == Bit(x.mag, FracBits - 1) = 1
        rest == LowNonZero(x.mag, FracBits - 1)
    IN  IF x.neg THEN -(ip + (IF half /\ rest THEN 1 ELSE 0))
        ELSE ip + (IF half THEN 1 ELSE 0)

\* Number(e.amount): the stored decimal(10,2), given as its count of cents,
\* read back as the nearest double
NumberOfAmount(cents) == DivSmall(FromInt(cents), 100)

\* Math.round(x * 100): the value in cents
Cents(x) == MathRound(MulSmall(x, 100))

\* Math.round(x * 100) / 100
RoundToCents(x) == DivSmall(FromInt(Cents(x)), 100)

(***************************************************************************)
(* Strings.                                                                *)
(***************************************************************************)
Comma == ","
Space == " "
Colon == ":"
Digits == {"0", "1", "2", "3", "4", "5", "6", "7", "8", "9"}

DigitValue(ch) ==
    CASE ch = "0" -> 0 [] ch = "1" -> 1 [] ch = "2" -> 2 [] ch = "3" -> 3
      [] ch = "4" -> 4 [] ch = "5" -> 5 [] ch = "6" -> 6 [] ch = "7" -> 7
      [] ch = "8" -> 8 [] ch = "9" -> 9

\* the position of the first sep in s, 0 when there is none
IndexOf(s, sep) ==
    IF \E p \in 1..Len(s) : s[p] = sep
    THEN CHOOSE p \in 1..Len(s) : s[p] = sep /\ \A q \in 1..(p - 1) : s[q] # sep
    ELSE 0

RECURSIVE Split(_, _)
\* s.split(sep)
Split(s, sep) ==
    LET p == IndexOf(s, sep)
    IN  IF p = 0 THEN <<s>>
        ELSE <<SubSeq(s, 1, p - 1)>> \o Split(SubSeq(s, p + 1, Len(s)), sep)

RECURSIVE Trim(_)
\* s.trim()
Trim(s) ==
    IF s = <<>> THEN s
    ELSE IF Head(s) = Space THEN Trim(Tail(s))
    ELSE IF s[Len(s)] = Space THEN Trim(SubSeq(s, 1, Len(s) - 1))
    ELSE s

MapTrim(parts) == [k \in 1..Len(parts) |-> Trim(parts[k])]

NonEmpty(s) == s # <<>>

\* parts.filter(Boolean) on strings
FilterBoolean(parts) == SelectSeq(parts, NonEmpty)

RECURSIVE Join(_, _)
\* parts.join(sep)
Join(parts, sep) ==
    IF parts = <<>> THEN <<>>
    ELSE IF Len(parts) = 1 THEN parts[1]
    ELSE parts[1] \o <<sep>> \o Join(Tail(parts), sep)

(***************************************************************************)
(* The balances object: its properties in creation order.                  *)
(***************************************************************************)
HasKey(balances, name) == \E k \in 1..Len(balances) : balances[k].name = name

KeyIndex(balances, name) == CHOOSE k \in 1..Len(balances) : balances[k].name = name

\* balances[name], 0 for a missing property where the code reads it as falsy
Get(balances, name) ==
    IF HasKey(balances, name) THEN balances[KeyIndex(balances, name)].amount ELSE Zero

\* if (!balances[name]) balances[name] = 0; balances[name] += amount;
addBalance(balances, name, amount) ==
    IF HasKey(balances, name)
    THEN [balances EXCEPT ![KeyIndex(balances, name)].amount = Add(@, amount)]
    ELSE Append(balances, [name |-> name, amount |-> Add(Zero, amount)])

\* a canonical array index: JavaScript lists such keys first, ascending
IsIndexKey(name) ==
    /\ name # <<>>
    /\ \A k \in 1..Len(name) : name[k] \in Digits
    /\ Len(name) > 1 => name[1] # "0"

RECURSIVE IndexValue(_)
IndexValue(name) ==
    IF name = <<>> THEN 0
    ELSE IndexValue(SubSeq(name, 1, Len(name) - 1)) * 10 + DigitValue(name[Len(name)])

HasIndexKey(entry) == IsIndexKey(entry.name)

HasStringKey(entry) == ~IsIndexKey(entry.name)

RECURSIVE AscendingIndex(_)
AscendingIndex(entries) ==
    IF entries = <<>> THEN <<>>
    ELSE LET m == CHOOSE k \in 1..Len(entries) :
                    \A l \in 1..Len(entries) :
                        IndexValue(entries[k].name) <= IndexValue(entries[l].name)
         IN  <<entries[m]>>
             \o AscendingIndex(SubSeq(entries, 1, m - 1)
                               \o SubSeq(entries, m + 1, Len(entries)))

\* Object.entries(balances): index keys ascending, then the other keys in
\* creation order
ObjectEntries(balances) ==
    AscendingIndex(SelectSeq(balances, HasIndexKey))
    \o SelectSeq(balances, HasStringKey)

(***************************************************************************)
(* calculateSettlements, statement by statement.                           *)
(***************************************************************************)
\* e.participants.split(',').map((p) => p.trim()).filter(Boolean)
ParseParticipants(str) == FilterBoolean(MapTrim(Split(str, Comma)))

RECURSIVE DebitAll(_, _, _)
\* for (const p of participants) addBalance(p, -share)
DebitAll(balances, participants, share) ==
    IF participants = <<>> THEN balances
    ELSE DebitAll(addBalance(balances, Head(participants), Neg(share)),
                  Tail(participants), share)

\* as AccumulateExpense, with the payer never credited
AccumulateExpenseDebitOnly(balances, e) ==
    LET participants == ParseParticipants(e.participants)
        share == DivSmall(NumberOfAmount(e.amount), Len(participants))
    IN  IF Len(participants) = 0 THEN balances
        ELSE DebitAll(balances, participants, share)

\* as AccumulateExpense, with the payer credited before the empty list is
\* skipped
AccumulateExpenseCreditFirst(balances, e) ==
    LET participants == ParseParticipants(e.participants)
        share == DivSmall(NumberOfAmount(e.amount), Len(participants))
        credited == addBalance(balances, e.payerName, NumberOfAmount(e.amount))
    IN  IF Len(participants) = 0 THEN credited
        ELSE DebitAll(credited, participants, share)

\* the body of the loop over the expenses
AccumulateExpense(balances, e) ==
    LET participants == ParseParticipants(e.participants)
        share == DivSmall(NumberOfAmount(e.amount), Len(participants))
    IN  IF Len(participants) = 0 THEN balances
        ELSE addBalance(DebitAll(balances, participants, share),
                        e.payerName, NumberOfAmount(e.amount))

IsCreditorEntry(entry) == Less(Zero, RoundToCents(entry.amount))

IsDebtorEntry(entry) == Less(RoundToCents(entry.amount), Zero)

IsUnsettledEntry(entry) == ~IsZero(RoundToCents(entry.amount))

\* as Creditors, with rounded !== 0 in place of rounded > 0 and the
\* magnitude as the amount
CreditorsOfEitherSign(balances) ==
    LET es == SelectSeq(ObjectEntries(balances), IsUnsettledEntry)
    IN  [k \in 1..Len(es) |->
            [name |-> es[k].name,
             amount |-> [RoundToCents(es[k].amount) EXCEPT !.neg = FALSE]]]

\* the parties pushed to creditors by the loop over Object.entries(balances)
Creditors(balances) ==
    LET es == SelectSeq(ObjectEntries(balances), IsCreditorEntry)
    IN  [k \in 1..Len(es) |->
            [name |-> es[k].name, amount |-> RoundToCents(es[k].amount)]]

IsNotCreditorEntry(entry) == ~Less(Zero, RoundToCents(entry.amount))

\* as Debtors, with else in place of else if (rounded < 0)
DebtorsWithSettled(balances) ==
    LET es == SelectSeq(ObjectEntries(balances), IsNotCreditorEntry)
    IN  [k \in 1..Len(es) |->
            [name |-> es[k].name, amount |-> Neg(RoundToCents(es[k].amount))]]

\* the parties pushed to debtors
Debtors(balances) ==
    LET es == SelectSeq(ObjectEntries(balances), IsDebtorEntry)
    IN  [k \in 1..Len(es) |->
            [name |-> es[k].name, amount |-> Neg(RoundToCents(es[k].amount))]]

(***************************************************************************)
(* One activation of calculateSettlements: its position and its locals.    *)
(* i and j count from 0 as in the code; k is the number of expenses the    *)
(* first loop has consumed.  afterClear is history: findAll read the table *)
(* after a clearAll and before any later save.  requests is history: the   *)
(* request bodies that made the rows findAll delivered, in the same order. *)
(***************************************************************************)
IdleFrame ==
    [pc |-> "idle", expenses |-> <<>>, k |-> 0, balances |-> <<>>,
     creditors |-> <<>>, debtors |-> <<>>, settlements |-> <<>>,
     i |-> 0, j |-> 0, afterClear |-> FALSE, requests |-> <<>>]

\* the locals as declared, once findAll has delivered the expenses
StartFrame(expenses) ==
    [IdleFrame EXCEPT !.pc = "accumulate", !.expenses = expenses]

\* one iteration of for (const e of expenses)
AccumulateStep(f) ==
    [f EXCEPT !.balances = AccumulateExpense(f.balances, f.expenses[f.k + 1]),
              !.k = f.k + 1]

\* the loop over Object.entries(balances), and i = 0, j = 0
PartitionStep(f) ==
    [f EXCEPT !.pc = "match",
              !.creditors = Creditors(f.balances),
              !.debtors = Debtors(f.balances),
              !.settlements = <<>>, !.i = 0, !.j = 0]

\* i < debtors.length && j < creditors.length
InRange(f) == f.i < Len(f.debtors) /\ f.j < Len(f.creditors)

\* as MatchStep, with else if in place of the second if: j advances only
\* when i does not
MatchStepElseIf(f) ==
    LET debtor == f.debtors[f.i + 1]
        creditor == f.creditors[f.j + 1]
        amount == MathMin(debtor.amount, creditor.amount)
        debtorLeft == Sub(debtor.amount, amount)
        creditorLeft == Sub(creditor.amount, amount)
    IN  [f EXCEPT
            !.settlements = Append(@, [from |-> debtor.name, to |-> creditor.name,
                                       amount |-> RoundToCents(amount)]),
            !.debtors[f.i + 1].amount = debtorLeft,
            !.creditors[f.j + 1].amount = creditorLeft,
            !.i = IF IsZero(debtorLeft) THEN @ + 1 ELSE @,
            !.j = IF ~IsZero(debtorLeft) /\ IsZero(creditorLeft) THEN @ + 1 ELSE @]

\* one iteration of the while loop
MatchStep(f) ==
    LET debtor == f.debtors[f.i + 1]
        creditor == f.creditors[f.j + 1]
        amount == MathMin(debtor.amount, creditor.amount)
        debtorLeft == Sub(debtor.amount, amount)
        creditorLeft == Sub(creditor.amount, amount)
    IN  [f EXCEPT
            !.settlements = Append(@, [from |-> debtor.name, to |-> creditor.name,
                                       amount |-> RoundToCents(amount)]),
            !.debtors[f.i + 1].amount = debtorLeft,
            !.creditors[f.j + 1].amount = creditorLeft,
            !.i = IF IsZero(debtorLeft) THEN @ + 1 ELSE @,
            !.j = IF IsZero(creditorLeft) THEN @ + 1 ELSE @]

\* return { balances, settlements }
ReturnStep(f) == [f EXCEPT !.pc = "done"]

RECURSIVE RunToCompletion(_)
\* the synchronous rest of the call, from the first loop to the return
RunToCompletion(f) ==
    IF f.pc = "accumulate"
    THEN IF f.k < Len(f.expenses) THEN RunToCompletion(AccumulateStep(f))
         ELSE RunToCompletion(PartitionStep(f))
    ELSE IF f.pc = "match"
    THEN IF InRange(f) THEN RunToCompletion(MatchStep(f))
         ELSE ReturnStep(f)
    ELSE f

(***************************************************************************)
(* The create path: the page's form, the request DTO, the stored row.      *)
(* A request amount is given in thousandths; a stored amount, a            *)
(* decimal(10,2), in cents.                                                *)
(***************************************************************************)
\* the decimal(10,2) column rounds the amount it is given to cents
ToDecimal2(thousandths) == (thousandths + 5) \div 10

\* rawCount ? Math.max(1, Number(rawCount) || 1) : 1
ShareCount(rawCount) ==
    IF rawCount # <<>> /\ \A k \in 1..Len(rawCount) : rawCount[k] \in Digits
    THEN IF IndexValue(rawCount) < 1 THEN 1 ELSE IndexValue(rawCount)
    ELSE 1

\* one "name:count" item of the participants input
ParseShare(s) ==
    LET fields == MapTrim(Split(s, Colon))
    IN  [name |-> fields[1],
         count |-> IF Len(fields) > 1 THEN ShareCount(fields[2]) ELSE 1]

HasName(p) == p.name # <<>>

\* parseParticipantsInput on the text of the participants field
parseParticipantsInput(input) ==
    LET items == FilterBoolean(MapTrim(Split(input, Comma)))
    IN  IF input = <<>> THEN <<>>
        ELSE SelectSeq([k \in 1..Len(items) |-> ParseShare(items[k])], HasName)

\* the request body handleSubmit posts for a form it accepts
FormDto(form) ==
    LET shares == parseParticipantsInput(form.participantsInput)
    IN  [payerName |-> form.payerName, amount |-> form.amount,
         description |-> form.description,
         participants |-> [k \in 1..Len(shares) |-> shares[k].name]]

\* handleSubmit's own checks before it posts
FormAccepted(form) ==
    /\ form.amount > 0
    /\ Len(parseParticipantsInput(form.participantsInput)) # 0

\* as ValidDto, without @ArrayMinSize(1) on participants
ValidDtoAnyParticipants(dto) ==
    /\ dto.payerName # <<>>
    /\ dto.amount > 0
    /\ dto.description # <<>>

\* CreateExpenseDto under the global ValidationPipe
ValidDto(dto) ==
    /\ dto.payerName # <<>>
    /\ dto.amount > 0
    /\ dto.description # <<>>
    /\ Len(dto.participants) >= 1

\* the bodies the boundary is to refuse: an empty payer name, an amount that
\* is not positive, an empty description or an empty participants list
Malformed(dto) ==
    \/ dto.payerName = <<>>
    \/ dto.amount <= 0
    \/ dto.description = <<>>
    \/ dto.participants = <<>>

\* 201, the status of a handled POST
Created == 201
\* 400, the status of the BadRequestException the ValidationPipe throws
BadRequest == 400

\* the row ExpensesService.create saves
NewRow(dto) ==
    [payerName |-> dto.payerName, amount |-> ToDecimal2(dto.amount),
     description |-> dto.description,
     participants |-> Join(dto.participants, Comma)]

RECURSIVE Reverse(_)
Reverse(s) == IF s = <<>> THEN <<>> ELSE Append(Reverse(Tail(s)), Head(s))

\* find({ order: { createdAt: 'DESC' } }) on rows kept in creation order
findAll(rows) == Reverse(rows)

(***************************************************************************)
(* Bounds and inputs.                                                      *)
(***************************************************************************)
\* rows in the table when a settlement alone is examined
MaxRecords == 2
\* rows the table may hold when requests interleave
MaxStored == 2

Callers == {1, 2}

NameA == <<"A">>
NameB == <<"B">>
NameC == <<"C">>
NameD == <<"D">>
Description == <<"x">>

\* stored rows a settlement is examined on: amounts of 0.01, 0.09, 20.00,
\* 30.00 and 90.00; participant texts with one, two and three names, with
\* none, and with names that are array indices
EnginePayers == {NameA, NameC}
EngineAmounts == {1, 9, 2000, 3000, 9000}
EngineParticipants ==
    { <<"D">>, <<"D", ",", "B">>, <<"A", ",", "B">>,
      <<"A", ",", "B", ",", "C">>, <<" ", ",", " ">>,
      <<"2", ",", "1", ",", "A">> }

EngineRows ==
    [payerName : EnginePayers, amount : EngineAmounts,
     description : {Description}, participants : EngineParticipants]

EngineStores == UNION {[1..n -> EngineRows] : n \in 0..MaxRecords}

\* request bodies sent to POST /expenses directly
ApiDtos ==
    [payerName : {<<>>, NameB}, amount : {0, 10},
     description : {<<>>, Description},
     participants : {<<>>, <<NameA, NameB>>, << <<>> >>}]

\* what is typed into the page's form
WeightedInput == <<"A", ":", "1", ",", "B", ":", "2">>
Forms ==
    [payerName : {NameA}, amount : {0, 30000},
     description : {Description},
     participantsInput : {WeightedInput, <<" ", ",", " ">>}]

\* activations of fetchExpensesAndSettlements the page may have at once:
\* slot 1 for the reload after a submit or a clear, slot 2 for the refresh
\* button
Reloads == {1, 2}

\* useState([]) for expenses and for settlements
EmptyPage == [expenses |-> <<>>, settlements |-> <<>>]

\* an activation of fetchExpensesAndSettlements: each response is <<>> while
\* it is awaited and <<body>> once the server has answered
IdleReload == [pc |-> "idle", expensesRes |-> <<>>, settlementsRes |-> <<>>]

\* Promise.all over the two fetches has been started
AwaitingReload == [IdleReload EXCEPT !.pc = "await"]

\* no handleSubmit and no performClear in progress; form is <<>> or <<form>>
IdleOp == [pc |-> "idle", form |-> <<>>]

(***************************************************************************)
(* State.                                                                  *)
(***************************************************************************)
VARIABLES
    store,      \* the expense table, rows in creation order
    typed,      \* history: per row, the participants text typed in the form
                \* that made it (empty for a direct request)
    cleared,    \* history: clearAll has completed and no row was saved since
    calls,      \* per caller, its activation of calculateSettlements
    posted,     \* history: per row, the request body that made it
    reply,      \* the status of the latest POST /expenses response, 0 before any
    malformed,  \* history: the latest POST /expenses body was malformed
    page,       \* the page's expenses and settlements state
    reloads,    \* per slot, an activation of fetchExpensesAndSettlements
    op          \* the page's handleSubmit or performClear in progress

tableVars == <<store, typed, cleared, posted, reply, malformed>>

pageVars == <<page, reloads, op>>

vars == <<store, typed, cleared, calls, posted, reply, malformed, page, reloads, op>>

Init ==
    /\ store = <<>>
    /\ typed = <<>>
    /\ cleared = FALSE
    /\ calls = [c \in Callers |-> IdleFrame]
    /\ posted = <<>>
    /\ reply = 0
    /\ malformed = FALSE
    /\ page = EmptyPage
    /\ reloads = [r \in Reloads |-> IdleReload]
    /\ op = IdleOp

\* ExpensesController.create behind the ValidationPipe, and its response
create(dto, text) ==
    /\ Len(store) < MaxStored
    /\ IF ValidDto(dto)
       THEN /\ store' = Append(store, NewRow(dto))
            /\ typed' = Append(typed, text)
            /\ cleared' = FALSE
            /\ posted' = Append(posted, dto)
            /\ reply' = Created
       ELSE /\ UNCHANGED <<store, typed, cleared, posted>>
            /\ reply' = BadRequest
    /\ malformed' = Malformed(dto)
    /\ UNCHANGED calls

\* a request sent to the API without the page
PostExpense ==
    /\ \E dto \in ApiDtos : create(dto, <<>>)
    /\ UNCHANGED pageVars

\* the page's handleSubmit, up to the POST it awaits
handleSubmit ==
    \E form \in Forms :
        IF FormAccepted(form)
        THEN create(FormDto(form), form.participantsInput) /\ UNCHANGED pageVars
        ELSE UNCHANGED vars

\* as clearAll, with the oldest row surviving
clearAllButOldest ==
    /\ store' = IF store = <<>> THEN store ELSE <<Head(store)>>
    /\ typed' = IF typed = <<>> THEN typed ELSE <<Head(typed)>>
    /\ posted' = IF posted = <<>> THEN posted ELSE <<Head(posted)>>
    /\ cleared' = TRUE
    /\ UNCHANGED <<calls, reply, malformed, pageVars>>

\* expensesRepo.clear()
clear ==
    /\ store' = <<>>
    /\ typed' = <<>>
    /\ posted' = <<>>
    /\ cleared' = TRUE
    /\ UNCHANGED <<calls, reply, malformed>>

\* DELETE /expenses
clearAll == clear /\ UNCHANGED pageVars

\* GET /expenses/settlements arrives: calculateSettlements awaits findAll
getSettlements(c) ==
    /\ calls[c].pc \in {"idle", "done"}
    /\ calls' = [calls EXCEPT ![c] = [IdleFrame EXCEPT !.pc = "findAll"]]
    /\ UNCHANGED <<tableVars, pageVars>>

\* as FindAllResolves, with balances a field of the service that the calls
\* share and none resets
FindAllResolvesSharedBalances(c) ==
    /\ calls[c].pc = "findAll"
    /\ \E other \in Callers :
          /\ other # c
          /\ calls' = [calls EXCEPT ![c] =
                          [StartFrame(findAll(store)) EXCEPT
                              !.afterClear = cleared,
                              !.requests = findAll(posted),
                              !.balances = calls[other].balances]]
    /\ UNCHANGED <<tableVars, pageVars>>

\* findAll reads the table; the call resumes with fresh locals
FindAllResolves(c) ==
    /\ calls[c].pc = "findAll"
    /\ calls' = [calls EXCEPT ![c] =
                    [StartFrame(findAll(store)) EXCEPT
                        !.afterClear = cleared,
                        !.requests = findAll(posted)]]
    /\ UNCHANGED <<tableVars, pageVars>>

\* as calculateSettlements, with the loops reading the table as it is now
\* in place of the rows findAll delivered
calculateSettlementsOnTable(c) ==
    /\ calls[c].pc = "accumulate"
    /\ calls[c].k = 0
    /\ calls' = [calls EXCEPT ![c] =
                    [RunToCompletion(StartFrame(findAll(store))) EXCEPT
                        !.expenses = calls[c].expenses,
                        !.afterClear = calls[c].afterClear,
                        !.requests = calls[c].requests]]
    /\ UNCHANGED <<tableVars, pageVars>>

\* the call runs to its return without yielding
calculateSettlements(c) ==
    /\ calls[c].pc = "accumulate"
    /\ calls[c].k = 0
    /\ calls' = [calls EXCEPT ![c] = RunToCompletion(calls[c])]
    /\ UNCHANGED <<tableVars, pageVars>>

Next ==
    \/ PostExpense
    \/ handleSubmit
    \/ clearAll
    \/ \E c \in Callers : getSettlements(c)
    \/ \E c \in Callers : FindAllResolves(c)
    \/ \E c \in Callers : calculateSettlements(c)

Spec == Init /\ [][Next]_vars

(***************************************************************************)
(* The page against the server: handleSubmit, performClear and the refresh *)
(* button, each request answered by the server at some step and each       *)
(* activation of fetchExpensesAndSettlements resuming at some later step.  *)
(* A submit or a clear starts when neither is in progress; the refresh     *)
(* button starts a reload whenever its own earlier one has resumed.        *)
(***************************************************************************)
\* handleSubmit up to the POST it awaits
Submit ==
    /\ op.pc = "idle"
    /\ Len(store) < MaxStored
    /\ \E form \in Forms :
          /\ FormAccepted(form)
          /\ op' = [pc |-> "post", form |-> <<form>>]
    /\ UNCHANGED <<tableVars, calls, page, reloads>>

\* the server handles the POST; handleSubmit resumes and, on res.ok, calls
\* fetchExpensesAndSettlements
PostReturns ==
    /\ op.pc = "post"
    /\ create(FormDto(op.form[1]), op.form[1].participantsInput)
    /\ IF reply' = Created
       THEN /\ reloads' = [reloads EXCEPT ![1] = AwaitingReload]
            /\ op' = [op EXCEPT !.pc = "reload"]
       ELSE /\ reloads' = reloads
            /\ op' = IdleOp
    /\ UNCHANGED page

\* performClear up to the DELETE it awaits
Clear ==
    /\ op.pc = "idle"
    /\ op' = [pc |-> "delete", form |-> <<>>]
    /\ UNCHANGED <<tableVars, calls, page, reloads>>

\* the server handles the DELETE; performClear resumes and calls
\* fetchExpensesAndSettlements
DeleteReturns ==
    /\ op.pc = "delete"
    /\ clear
    /\ reloads' = [reloads EXCEPT ![1] = AwaitingReload]
    /\ op' = [op EXCEPT !.pc = "reload"]
    /\ UNCHANGED page

\* the refresh button's onClick
Refresh ==
    /\ reloads[2].pc = "idle"
    /\ reloads' = [reloads EXCEPT ![2] = AwaitingReload]
    /\ UNCHANGED <<tableVars, calls, page, op>>

\* the server answers GET /expenses of activation r
ServeExpenses(r) ==
    /\ reloads[r].pc = "await"
    /\ reloads[r].expensesRes = <<>>
    /\ reloads' = [reloads EXCEPT ![r].expensesRes = <<findAll(store)>>]
    /\ UNCHANGED <<tableVars, calls, page, op>>

\* the server answers GET /expenses/settlements of activation r
ServeSettlements(r) ==
    /\ reloads[r].pc = "await"
    /\ reloads[r].settlementsRes = <<>>
    /\ reloads' = [reloads EXCEPT ![r].settlementsRes =
                      <<RunToCompletion(StartFrame(findAll(store))).settlements>>]
    /\ UNCHANGED <<tableVars, calls, page, op>>

\* both responses are in: activation r resumes after Promise.all, sets
\* expenses and settlements, and the handler that awaited it ends
Resolve(r) ==
    /\ reloads[r].pc = "await"
    /\ reloads[r].expensesRes # <<>>
    /\ reloads[r].settlementsRes # <<>>
    /\ page' = [expenses |-> reloads[r].expensesRes[1],
                settlements |-> reloads[r].settlementsRes[1]]
    /\ reloads' = [reloads EXCEPT ![r] = IdleReload]
    /\ op' = IF r = 1 THEN IdleOp ELSE op
    /\ UNCHANGED <<tableVars, calls>>

NextPage ==
    \/ Submit
    \/ PostReturns
    \/ Clear
    \/ DeleteReturns
    \/ Refresh
    \/ \E r \in Reloads : ServeExpenses(r)
    \/ \E r \in Reloads : ServeSettlements(r)
    \/ \E r \in Reloads : Resolve(r)

SpecPage == Init /\ [][NextPage]_vars

(***************************************************************************)
(* One settlement, loop iteration by loop iteration, over every table of   *)
(* at most MaxRecords rows.                                                *)
(***************************************************************************)
InitEngine ==
    /\ store \in EngineStores
    /\ typed = <<>>
    /\ cleared = FALSE
    /\ posted = <<>>
    /\ reply = 0
    /\ malformed = FALSE
    /\ page = EmptyPage
    /\ reloads = [r \in Reloads |-> IdleReload]
    /\ op = IdleOp
    /\ calls = [c \in Callers |->
                   IF c = 1 THEN StartFrame(findAll(store)) ELSE IdleFrame]

Accumulate(c) ==
    /\ calls[c].pc = "accumulate"
    /\ calls[c].k < Len(calls[c].expenses)
    /\ calls' = [calls EXCEPT ![c] = AccumulateStep(calls[c])]
    /\ UNCHANGED <<tableVars, pageVars>>

Partition(c) ==
    /\ calls[c].pc = "accumulate"
    /\ calls[c].k = Len(calls[c].expenses)
    /\ calls' = [calls EXCEPT ![c] = PartitionStep(calls[c])]
    /\ UNCHANGED <<tableVars, pageVars>>

Match(c) ==
    /\ calls[c].pc = "match"
    /\ InRange(calls[c])
    /\ calls' = [calls EXCEPT ![c] = MatchStep(calls[c])]
    /\ UNCHANGED <<tableVars, pageVars>>

Return(c) ==
    /\ calls[c].pc = "match"
    /\ ~InRange(calls[c])
    /\ calls' = [calls EXCEPT ![c] = ReturnStep(calls[c])]
    /\ UNCHANGED <<tableVars, pageVars>>

NextEngine ==
    \/ \E c \in Callers : Accumulate(c)
    \/ \E c \in Callers : Partition(c)
    \/ \E c \in Callers : Match(c)
    \/ \E c \in Callers : Return(c)

SpecEngine == InitEngine /\ [][NextEngine]_vars

\* a call is in its synchronous code: a step of NextEngine is enabled
Running == \E c \in Callers : calls[c].pc \in {"accumulate", "match"}

\* the synchronous code of a call runs on once it has started: weak
\* fairness of NextEngine, WF_vars(NextEngine), with its enabling condition
\* written out as Running
SpecEngineFair == SpecEngine /\ ([]<>~Running \/ []<><<NextEngine>>_vars)

(***************************************************************************)
(* What the claims speak of: a finished call, its balances in cents, and   *)
(* the effect of its transfers.                                            *)
(***************************************************************************)
Done(c) == calls[c].pc = "done"

Abs(n) == IF n < 0 THEN -n ELSE n

Min(m, n) == IF m < n THEN m ELSE n

RECURSIVE SumCents(_)
\* the sum over all names of the balance rounded to cents
SumCents(balances) ==
    IF balances = <<>> THEN 0
    ELSE Cents(Head(balances).amount) + SumCents(Tail(balances))

\* a person's balance rounded to cents, in cents
RoundedBalance(f, name) == Cents(Get(f.balances, name))

BalanceNames(f) == {f.balances[k].name : k \in 1..Len(f.balances)}

RECURSIVE Received(_, _)
\* the cents the transfers credit to name
Received(settlements, name) ==
    IF settlements = <<>> THEN 0
    ELSE (IF Head(settlements).to = name THEN Cents(Head(settlements).amount) ELSE 0)
         + Received(Tail(settlements), name)

RECURSIVE Paid(_, _)
\* the cents the transfers debit from name
Paid(settlements, name) ==
    IF settlements = <<>> THEN 0
    ELSE (IF Head(settlements).from = name THEN Cents(Head(settlements).amount) ELSE 0)
         + Paid(Tail(settlements), name)

\* a person's net amount once every transfer is applied to the zero state
Net(f, name) == Received(f.settlements, name) - Paid(f.settlements, name)

NumDebtors(f) == Cardinality({n \in BalanceNames(f) : RoundedBalance(f, n) < 0})

NumCreditors(f) == Cardinality({n \in BalanceNames(f) : RoundedBalance(f, n) > 0})

TransfersReproduceBalances ==
    \A c \in Callers :
        Done(c) =>
            LET f == calls[c]
                slack == Abs(SumCents(f.balances))
            IN  /\ \A n \in BalanceNames(f) :
                      Abs(Net(f, n) - RoundedBalance(f, n)) <= slack
                /\ slack = 0 =>
                      /\ f.i = Len(f.debtors)
                      /\ f.j = Len(f.creditors)
                      /\ \A n \in BalanceNames(f) : Net(f, n) = RoundedBalance(f, n)

\* the part of C2 the code keeps: the net amounts, whatever the cursors
NetsReproduceBalances ==
    \A c \in Callers :
        Done(c) =>
            \A n \in BalanceNames(calls[c]) :
                Abs(Net(calls[c], n) - RoundedBalance(calls[c], n))
                    <= Abs(SumCents(calls[c].balances))

(***************************************************************************)
(* C3  In every finished call the number of transfers is at most the       *)
(* number of names with a negative rounded balance plus the number with a  *)
(* positive one, less one, when both kinds exist, and is zero otherwise.   *)
(***************************************************************************)
TransferCountBound ==
    \A c \in Callers :
        Done(c) =>
            LET f == calls[c]
            IN  IF NumDebtors(f) >= 1 /\ NumCreditors(f) >= 1
                THEN Len(f.settlements) <= NumDebtors(f) + NumCreditors(f) - 1
                ELSE Len(f.settlements) = 0

\* two debtors and two creditors settled by exactly three transfers
TransferCountWitness ==
    \E c \in Callers :
        /\ Done(c)
        /\ NumDebtors(calls[c]) = 2
        /\ NumCreditors(calls[c]) = 2
        /\ Len(calls[c].settlements) = 3

(***************************************************************************)
(* C4  Every transfer of every finished call has an amount that is a whole *)
(* number of cents and at least one cent.                                  *)
(***************************************************************************)
PositiveCentTransfers ==
    \A c \in Callers :
        Done(c) =>
            \A m \in 1..Len(calls[c].settlements) :
                LET amount == calls[c].settlements[m].amount
                IN  /\ Cents(amount) >= 1
                    /\ amount = NumberOfAmount(Cents(amount))

(***************************************************************************)
(* C5  Weighted split: when the table holds one row, made by the page from *)
(* a participants text with weights, a finished call over it has debited   *)
(* each participant weight * amount / totalWeight and credited the payer   *)
(* the amount; for payer A, 30.00 and the text "A:1,B:2" the balances are  *)
(* A = 20.00 and B = -20.00 and the only transfer is B to A, 20.00.        *)
(***************************************************************************)
RECURSIVE WeightOf(_, _)
WeightOf(shares, name) ==
    IF shares = <<>> THEN 0
    ELSE (IF Head(shares).name = name THEN Head(shares).count ELSE 0)
         + WeightOf(Tail(shares), name)

RECURSIVE TotalWeight(_)
TotalWeight(shares) ==
    IF shares = <<>> THEN 0 ELSE Head(shares).count + TotalWeight(Tail(shares))

WeightedSplit ==
    \A c \in Callers :
        (/\ Done(c)
         /\ Len(store) = 1
         /\ calls[c].expenses = findAll(store)
         /\ typed[1] # <<>>) =>
            LET f == calls[c]
                row == store[1]
                shares == parseParticipantsInput(typed[1])
                total == TotalWeight(shares)
                people == {shares[k].name : k \in 1..Len(shares)} \cup {row.payerName}
            IN  /\ \A n \in people :
                      RoundedBalance(f, n) * total
                          = (IF n = row.payerName THEN row.amount * total ELSE 0)
                            - WeightOf(shares, n) * row.amount
                /\ (/\ typed[1] = WeightedInput
                    /\ row.payerName = NameA
                    /\ row.amount = 3000) =>
                      f.settlements = << [from |-> NameB, to |-> NameA,
                                          amount |-> NumberOfAmount(2000)] >>

(***************************************************************************)
(* C6  Equal split with payer netting: a finished call over a single row   *)
(* with amount a, payer P and n distinct participants that include P has   *)
(* the payer at a - a/n, every other participant at -a/n (in cents,        *)
(* halves rounded away from zero), and exactly one transfer of a/n from    *)
(* each other participant to P, in participant order (none when a/n is     *)
(* less than half a cent).                                                 *)
(***************************************************************************)
Distinct(seq) == \A k, l \in 1..Len(seq) : seq[k] = seq[l] => k = l

\* num / den for num >= 0, rounded to a whole number, halves upward
RoundHalfAway(num, den) == (2 * num + den) \div (2 * den)

EqualSplitNetting ==
    \A c \in Callers :
        (Done(c) /\ Len(calls[c].expenses) = 1) =>
            LET f == calls[c]
                e == f.expenses[1]
                ps == ParseParticipants(e.participants)
                n == Len(ps)
                IsOther(q) == q # e.payerName
                others == SelectSeq(ps, IsOther)
            IN  (/\ n >= 1
                 /\ Distinct(ps)
                 /\ \E k \in 1..n : ps[k] = e.payerName) =>
                    /\ RoundedBalance(f, e.payerName)
                          = RoundHalfAway(e.amount * (n - 1), n)
                    /\ \A k \in 1..Len(others) :
                          RoundedBalance(f, others[k]) = -RoundHalfAway(e.amount, n)
                    /\ f.settlements =
                          IF RoundHalfAway(e.amount, n) = 0 THEN <<>>
                          ELSE [k \in 1..Len(others) |->
                                  [from |-> others[k], to |-> e.payerName,
                                   amount |-> NumberOfAmount(RoundHalfAway(e.amount, n))]]

(***************************************************************************)
(* C7  No-op record: a finished call returns the balances and transfers it *)
(* would return had the rows whose participants text yields no name not    *)
(* been in the list, and every key of its balances map and every party of  *)
(* its transfers is the payer or a participant of some other row.          *)
(***************************************************************************)
HasParticipants(e) == ParseParticipants(e.participants) # <<>>

RowNames(e) ==
    {e.payerName}
    \cup {ParseParticipants(e.participants)[k] :
              k \in 1..Len(ParseParticipants(e.participants))}

NoOpRecord ==
    \A c \in Callers :
        Done(c) =>
            LET f == calls[c]
                kept == SelectSeq(f.expenses, HasParticipants)
                without == RunToCompletion(StartFrame(kept))
                named == UNION {RowNames(kept[k]) : k \in 1..Len(kept)}
            IN  /\ f.balances = without.balances
                /\ f.settlements = without.settlements
                /\ BalanceNames(f) \subseteq named
                /\ \A m \in 1..Len(f.settlements) :
                      f.settlements[m].from \in named /\ f.settlements[m].to \in named

\* a finished call with transfers, over a list holding a row without names
\* whose payer occurs in no other row
NoOpRecordWitness ==
    \E c \in Callers :
        /\ Done(c)
        /\ calls[c].settlements # <<>>
        /\ \E k \in 1..Len(calls[c].expenses) :
              /\ ~HasParticipants(calls[c].expenses[k])
              /\ calls[c].expenses[k].payerName \notin BalanceNames(calls[c])

(***************************************************************************)
(* C8  Greedy two-pointer order: in a finished call the debtors and the    *)
(* creditors are listed in the order their names were first met during     *)
(* accumulation (rows in findAll's order, in a row the participants and    *)
(* then the payer); the transfers never step back in either list; each     *)
(* transfer is the smaller of what its debtor still owes and what its      *)
(* creditor is still owed; and debtors of 40 and 10 against creditors of   *)
(* 30 and 20 give 30.00, 10.00 and 10.00, in that order.                   *)
(***************************************************************************)
RECURSIVE AppendNew(_, _)
AppendNew(seen, names) ==
    IF names = <<>> THEN seen
    ELSE AppendNew(IF \E k \in 1..Len(seen) : seen[k] = Head(names)
                   THEN seen ELSE Append(seen, Head(names)),
                   Tail(names))

RECURSIVE FirstSeen(_, _)
FirstSeen(seen, expenses) ==
    IF expenses = <<>> THEN seen
    ELSE LET e == Head(expenses)
         IN  FirstSeen(IF HasParticipants(e)
                       THEN AppendNew(seen, Append(ParseParticipants(e.participants),
                                                   e.payerName))
                       ELSE seen,
                       Tail(expenses))

PartyNames(parties) == [k \in 1..Len(parties) |-> parties[k].name]

Position(seq, x) == CHOOSE k \in 1..Len(seq) : seq[k] = x

GreedyOrder ==
    \A c \in Callers :
        Done(c) =>
            LET f == calls[c]
                s == f.settlements
                order == FirstSeen(<<>>, f.expenses)
                Owes(n) == RoundedBalance(f, n) < 0
                IsOwed(n) == RoundedBalance(f, n) > 0
                ds == SelectSeq(order, Owes)
                cs == SelectSeq(order, IsOwed)
            IN  /\ PartyNames(f.debtors) = ds
                /\ PartyNames(f.creditors) = cs
                /\ \A m \in 1..(Len(s) - 1) :
                      /\ Position(ds, s[m].from) <= Position(ds, s[m + 1].from)
                      /\ Position(cs, s[m].to) <= Position(cs, s[m + 1].to)
                /\ \A m \in 1..Len(s) :
                      Cents(s[m].amount)
                          = Min(-RoundedBalance(f, s[m].from)
                                    - Paid(SubSeq(s, 1, m - 1), s[m].from),
                                RoundedBalance(f, s[m].to)
                                    - Received(SubSeq(s, 1, m - 1), s[m].to))
                /\ (/\ [k \in 1..Len(ds) |-> -RoundedBalance(f, ds[k])] = <<4000, 1000>>
                    /\ [k \in 1..Len(cs) |-> RoundedBalance(f, cs[k])] = <<3000, 2000>>) =>
                      [m \in 1..Len(s) |-> <<s[m].from, s[m].to, Cents(s[m].amount)>>]
                          = << <<ds[1], cs[1], 3000>>, <<ds[1], cs[2], 1000>>,
                               <<ds[2], cs[2], 1000>> >>

(***************************************************************************)
(* C9  Clear-then-settle: every finished call whose findAll read the table *)
(* after a clearAll and before any later save returns an empty balances    *)
(* map and no transfer.                                                    *)
(***************************************************************************)
ClearThenSettle ==
    \A c \in Callers :
        (Done(c) /\ calls[c].afterClear) =>
            calls[c].balances = <<>> /\ calls[c].settlements = <<>>

\* a call finished empty after a clear, while another call had found
\* transfers to make in the rows saved before
ClearThenSettleWitness ==
    \E c, d \in Callers :
        /\ Done(c) /\ calls[c].afterClear
        /\ cleared
        /\ Done(d) /\ calls[d].settlements # <<>>

(***************************************************************************)
(* C10  Idempotence of recomputation: two finished calls that read the     *)
(* same list of rows hold identical balances and identical transfers, and  *)
(* no step of a call changes the table.                                    *)
(***************************************************************************)
SameResult ==
    \A c, d \in Callers :
        (Done(c) /\ Done(d) /\ calls[c].expenses = calls[d].expenses) =>
            /\ calls[c].balances = calls[d].balances
            /\ calls[c].settlements = calls[d].settlements

CallStep ==
    \E c \in Callers :
        getSettlements(c) \/ FindAllResolves(c) \/ calculateSettlements(c)

Idempotence == []SameResult /\ [][store' = store \/ ~CallStep]_vars

\* two callers finished over the same rows, with transfers
IdempotenceWitness ==
    /\ Done(1) /\ Done(2)
    /\ calls[1].expenses = calls[2].expenses
    /\ calls[1].expenses = findAll(store)
    /\ calls[1].settlements # <<>>

(***************************************************************************)
(* C11  Boundary validation: a POST /expenses whose body has an empty      *)
(* payer name, an amount that is not positive, an empty description or an  *)
(* empty participants list is answered 400 and leaves the table as it was; *)
(* every row of the table, and every row a call's findAll delivered, was   *)
(* made by a body with none of these defects.                              *)
(***************************************************************************)
RefusedStep == \E dto \in ApiDtos : Malformed(dto) /\ create(dto, <<>>)

MadeBy(rows, bodies) ==
    /\ Len(bodies) = Len(rows)
    /\ \A k \in 1..Len(rows) :
          ~Malformed(bodies[k]) /\ rows[k] = NewRow(bodies[k])

RowsWellFormed ==
    /\ malformed => reply = BadRequest
    /\ MadeBy(store, posted)
    /\ \A c \in Callers : MadeBy(calls[c].expenses, calls[c].requests)

BoundaryValidation ==
    /\ []RowsWellFormed
    /\ [][RefusedStep => (store' = store /\ reply' = BadRequest)]_vars

\* the latest request was refused, and a call has settled the rows saved
\* before it
BoundaryValidationWitness ==
    /\ malformed /\ reply = BadRequest
    /\ store # <<>>
    /\ \E c \in Callers :
          /\ Done(c)
          /\ calls[c].expenses = findAll(store)
          /\ calls[c].settlements # <<>>

(***************************************************************************)
(* C12  Returned balances are rounded: in every finished call each value   *)
(* of the balances map is the number Math.round(value * 100) / 100, a      *)
(* whole number of cents.                                                  *)
(***************************************************************************)
ReturnedBalancesRounded ==
    \A c \in Callers :
        Done(c) =>
            \A k \in 1..Len(calls[c].balances) :
                calls[c].balances[k].amount
                    = RoundToCents(calls[c].balances[k].amount)

(***************************************************************************)
(* C13  Validation guarantees a participant: every row of the table, and   *)
(* every row a call's findAll delivered, yields at least one name when its *)
(* participants text is split on commas, trimmed and cleared of blanks,    *)
(* and the names it yields are the participants list of the request that   *)
(* made the row.                                                           *)
(***************************************************************************)
YieldsSubmitted(rows, bodies) ==
    \A k \in 1..Len(rows) :
        /\ ParseParticipants(rows[k].participants) # <<>>
        /\ ParseParticipants(rows[k].participants) = bodies[k].participants

ParticipantGuaranteed ==
    /\ YieldsSubmitted(store, posted)
    /\ \A c \in Callers : YieldsSubmitted(calls[c].expenses, calls[c].requests)

(***************************************************************************)
(* C14  The matching loop terminates: at the start of every iteration the  *)
(* remaining amounts of the debtor and of the creditor under the cursors   *)
(* are strictly positive; the iteration leaves the smaller of the two at   *)
(* exactly 0 and moves its cursor on by one, both cursors when the two are *)
(* equal, and the other cursor stays; with a cursor past the end of its    *)
(* list the next step is the return; and every call in the loop reaches    *)
(* its return.                                                             *)
(***************************************************************************)
PositiveUnderCursors ==
    \A c \in Callers :
        (calls[c].pc = "match" /\ InRange(calls[c])) =>
            /\ Less(Zero, calls[c].debtors[calls[c].i + 1].amount)
            /\ Less(Zero, calls[c].creditors[calls[c].j + 1].amount)

IterationAdvances ==
    \A c \in Callers :
        (calls[c].pc = "match" /\ calls'[c] # calls[c]) =>
            LET f == calls[c]
                g == calls'[c]
            IN  IF InRange(f)
                THEN LET d == f.debtors[f.i + 1].amount
                         cr == f.creditors[f.j + 1].amount
                     IN  /\ g.pc = "match"
                         /\ Len(g.settlements) = Len(f.settlements) + 1
                         /\ ~Less(cr, d) =>
                               /\ IsZero(g.debtors[f.i + 1].amount)
                               /\ g.i = f.i + 1
                         /\ ~Less(d, cr) =>
                               /\ IsZero(g.creditors[f.j + 1].amount)
                               /\ g.j = f.j + 1
                         /\ Less(cr, d) => g.i = f.i
                         /\ Less(d, cr) => g.j = f.j
                ELSE /\ g.pc = "done"
                     /\ g.settlements = f.settlements

MatchingTerminates ==
    /\ []PositiveUnderCursors
    /\ [][IterationAdvances]_vars
    /\ \A c \in Callers : (calls[c].pc = "match") ~> Done(c)

\* a call inside the loop after two iterations, one of which left a
\* remainder that is not a whole number of cents under a cursor
MatchingTerminatesWitness ==
    \E c \in Callers :
        /\ calls[c].pc = "match"
        /\ InRange(calls[c])
        /\ Len(calls[c].settlements) >= 2
        /\ \/ calls[c].debtors[calls[c].i + 1].amount
                  # RoundToCents(calls[c].debtors[calls[c].i + 1].amount)
           \/ calls[c].creditors[calls[c].j + 1].amount
                  # RoundToCents(calls[c].creditors[calls[c].j + 1].amount)

(***************************************************************************)
(* C15  Concurrent invocation: with calls interleaving with each other and *)
(* with create and clearAll, the rows a call settles are the table as it   *)
(* stood at the one step where its findAll resolved; every finished call   *)
(* holds the balances, party lists, cursors and transfers that a call on   *)
(* those rows alone produces; and a step of one call, or of create or      *)
(* clearAll, leaves every other call's locals as they were.                *)
(***************************************************************************)
SettlementOf(expenses) == RunToCompletion(StartFrame(expenses))

OwnResult ==
    \A c \in Callers :
        Done(c) =>
            LET alone == SettlementOf(calls[c].expenses)
            IN  /\ calls[c].balances = alone.balances
                /\ calls[c].creditors = alone.creditors
                /\ calls[c].debtors = alone.debtors
                /\ calls[c].i = alone.i /\ calls[c].j = alone.j
                /\ calls[c].settlements = alone.settlements

OwnSnapshot ==
    \A c \in Callers :
        /\ (calls[c].pc = "findAll" /\ calls'[c] # calls[c]) =>
              /\ calls'[c].expenses = findAll(store)
              /\ store' = store
        /\ (calls[c].pc = "accumulate" /\ calls'[c] # calls[c]) =>
              calls'[c].expenses = calls[c].expenses
        /\ calls'[c] # calls[c] =>
              \A d \in Callers \ {c} : calls'[d] = calls[d]
        /\ store' # store => calls' = calls

ConcurrentCalls == []OwnResult /\ [][OwnSnapshot]_vars

\* two finished calls with transfers, over different rows, one of them over
\* rows the table no longer holds
ConcurrentCallsWitness ==
    /\ Done(1) /\ Done(2)
    /\ calls[1].expenses # calls[2].expenses
    /\ calls[1].expenses # findAll(store)
    /\ calls[1].settlements # <<>>
    /\ calls[2].settlements # <<>>

(***************************************************************************)
(* C16  Rounding is symmetric: in every finished call, two names whose     *)
(* running totals are +x and -x round to +r and -r cents for the same r,   *)
(* so that one is a creditor exactly when the other is a debtor, and r is  *)
(* x rounded half away from zero.                                          *)
(***************************************************************************)
Opposite(x, y) == ~IsZero(x) /\ y = Neg(x)

SymmetricRounding ==
    \A c \in Callers :
        Done(c) =>
            \A m, n \in 1..Len(calls[c].balances) :
                Opposite(calls[c].balances[m].amount, calls[c].balances[n].amount) =>
                    Cents(calls[c].balances[n].amount)
                        = -Cents(calls[c].balances[m].amount)

(***************************************************************************)
(* C17  No self-transfer: in every call past the partition no name is in   *)
(* both the debtors and the creditors list, every transfer has from        *)
(* different from to, and over all transfers a name pays out at most the   *)
(* cents of its negative rounded balance and receives at most the cents of *)
(* its positive rounded balance (nothing when it has none).                *)
(***************************************************************************)
PartyNamesOf(parties) == {parties[k].name : k \in 1..Len(parties)}

Owed(f, name) == IF RoundedBalance(f, name) < 0 THEN -RoundedBalance(f, name) ELSE 0

Due(f, name) == IF RoundedBalance(f, name) > 0 THEN RoundedBalance(f, name) ELSE 0

NoSelfTransfer ==
    \A c \in Callers :
        calls[c].pc \in {"match", "done"} =>
            LET f == calls[c]
            IN  /\ PartyNamesOf(f.debtors) \cap PartyNamesOf(f.creditors) = {}
                /\ \A m \in 1..Len(f.settlements) :
                      f.settlements[m].from # f.settlements[m].to
                /\ \A n \in BalanceNames(f) :
                      /\ Paid(f.settlements, n) <= Owed(f, n)
                      /\ Received(f.settlements, n) <= Due(f, n)

\* a finished call in which one debtor has paid two creditors and, in all,
\* exactly the cents it owed
NoSelfTransferWitness ==
    \E c \in Callers :
        /\ Done(c)
        /\ \E m, n \in 1..Len(calls[c].settlements) :
              /\ m # n
              /\ calls[c].settlements[m].from = calls[c].settlements[n].from
              /\ calls[c].settlements[m].to # calls[c].settlements[n].to
              /\ Paid(calls[c].settlements, calls[c].settlements[m].from)
                    = Owed(calls[c], calls[c].settlements[m].from)

(***************************************************************************)
(* C18  UI consistency: whenever the page has no submit, no clear and no   *)
(* reload in progress, the expenses it shows are the table as it stands,   *)
(* newest first, and the settlements it shows are the settlement of the    *)
(* expenses it shows.                                                      *)
(***************************************************************************)
Quiet == op.pc = "idle" /\ \A r \in Reloads : reloads[r].pc = "idle"

PageConsistent ==
    Quiet =>
        /\ page.expenses = findAll(store)
        /\ page.settlements = SettlementOf(page.expenses).settlements

=============================================================================
